---- MODULE Spec2Model ----
(***************************************************************************)
(* A model of the game_of_life crate: CellState (cell_state.rs), Coord     *)
(* (coord.rs), Board (board.rs), Rules (rules.rs) and Game (game.rs).      *)
(*                                                                         *)
(* A Board value is a record [cells, cell_coords]; cells is the            *)
(* Vec<Vec<CellState>> (a sequence of rows, row y of the code is element   *)
(* y + 1 of the sequence), cell_coords the Vec<Coord>.  A Rules value is a *)
(* record [b, s] of two sequences of numbers (Vec<u8>).  The pure methods  *)
(* (&self) are operators over these values; the methods the callers use    *)
(* are the actions further down.  A Rust panic is the variable panicked.   *)
(***************************************************************************)
EXTENDS Integers, Sequences, FiniteSets

(* ------------------------------ bounds --------------------------------- *)

\* Largest width, height and number of cells (width * height) of a board of
\* Spec and SpecToggles.
MaxWidth == 3

MaxHeight == 3

MaxCells == 9

\* Longest list of coordinates handed to apply_toggles by a caller.
MaxToggles == 2

\* Largest width and height of a board of SpecPatterns.
MaxDim == 5

\* Largest number of generations a pattern is advanced in SpecPatterns.
MaxGen == 2

\* Largest number of rows, and longest row, of a grid handed to from_grid in
\* SpecConstruct.
MaxRows == 2

MaxRowLen == 2

\* Longest string handed to from_str in SpecConstruct.
MaxText == 5

\* Largest width and height of a board of SpecEdits, and largest x and y of a
\* coordinate handed to its calls.
MaxEditDim == 2

\* Longest list b and longest list s of the rule sets of SpecRules, the three
\* rule sets of Spec aside.
MaxRuleLen == 1

(* --------------------------- cell_state.rs ----------------------------- *)

CellState == {"Alive", "Dead"}

revive(s) == "Alive"

kill(s) == "Dead"

\* Mutant: both arms of the match kill.
toggle_kills(s) == kill(s)

\* Mutant: both arms of the match revive.
toggle_revives(s) == revive(s)

toggle(s) == IF s = "Alive" THEN kill(s) ELSE revive(s)

(* ------------------------------ coord.rs ------------------------------- *)

Coord(x, y) == [x |-> x, y |-> y]

(* ------------------------------ rules.rs ------------------------------- *)

\* Mutant: only the first entry is looked at.
contains_first(v, e) == Len(v) > 0 /\ v[1] = e

\* Vec::contains
contains(v, e) == \E i \in 1..Len(v) : v[i] = e

\* Mutant: survives looks in b, as birthed does.
survives_uses_b(r, live_neighbours) == contains(r.b, live_neighbours)

survives(r, live_neighbours) == contains(r.s, live_neighbours)

\* Mutant: birthed looks in s, as survives does.
birthed_uses_s(r, live_neighbours) == contains(r.s, live_neighbours)

birthed(r, live_neighbours) == contains(r.b, live_neighbours)

\* Mutant: a cell survives with 3 live neighbours only.
conways_s3 == [b |-> <<3>>, s |-> <<3>>]

conways == [b |-> <<3>>, s |-> <<2, 3>>]

(* ------------------------------ board.rs ------------------------------- *)

\* Mutant: only the board without any row is refused.
new_panics_height_only(w, h) == h = 0

new_panics(w, h) == w = 0 \/ h = 0

\* Mutant: width and height have changed places.
new_transposed(w, h) ==
    [cells       |-> [y \in 1..w |-> [x \in 1..h |-> "Dead"]],
     cell_coords |-> [i \in 1..(w * h) |-> Coord((i - 1) % h, (i - 1) \div h)]]

\* Board::new: every cell Dead, cell_coords pushed row by row (x innermost).
new(w, h) ==
    [cells       |-> [y \in 1..h |-> [x \in 1..w |-> "Dead"]],
     cell_coords |-> [i \in 1..(w * h) |-> Coord((i - 1) % w, (i - 1) \div w)]]

width(b) == Len(b.cells[1])

height(b) == Len(b.cells)

cell_coords(b) == b.cell_coords

\* The bounds checks of the two Vec indexings in self.cells[coord.y][coord.x].
InBounds(b, coord) ==
    /\ coord.y < Len(b.cells)
    /\ coord.x < Len(b.cells[coord.y + 1])

get_cell_state(b, coord) == b.cells[coord.y + 1][coord.x + 1]

\* Mutant: the state is written to every cell of the row.
set_cell_whole_row(b, coord, s) ==
    [b EXCEPT !.cells[coord.y + 1] = [x \in 1..Len(@) |-> s]]

\* get_cell_state_mut(coord) followed by a CellState method f on the place.
set_cell(b, coord, s) ==
    [b EXCEPT !.cells[coord.y + 1][coord.x + 1] = s]

\* Mutant: the cell is taken out of its row.
kill_cell_removes(b, coord) ==
    [b EXCEPT !.cells[coord.y + 1] =
        SubSeq(@, 1, coord.x) \o SubSeq(@, coord.x + 2, Len(@))]

kill_cell(b, coord) == set_cell(b, coord, kill(get_cell_state(b, coord)))

revive_cell(b, coord) == set_cell(b, coord, revive(get_cell_state(b, coord)))

toggle_cell(b, coord) == set_cell(b, coord, toggle(get_cell_state(b, coord)))

\* Mutant: no wrap at the east and south edges.
get_neighbour_coords_no_wrap(b, coord) ==
    LET x  == coord.x
        xa == coord.x + 1
        xs == IF coord.x = 0 THEN width(b) - 1 ELSE coord.x - 1
        y  == coord.y
        ya == coord.y + 1
        ys == IF coord.y = 0 THEN height(b) - 1 ELSE coord.y - 1
    IN  << Coord(xs, y), Coord(xa, y), Coord(x, ys), Coord(x, ya),
           Coord(xs, ys), Coord(xa, ys), Coord(xs, ya), Coord(xa, ya) >>

\* Mutant: the west and north edges saturate at 0 instead of wrapping.
get_neighbour_coords_saturating(b, coord) ==
    LET x  == coord.x
        xa == IF coord.x = width(b) - 1 THEN 0 ELSE coord.x + 1
        xs == IF coord.x = 0 THEN 0 ELSE coord.x - 1
        y  == coord.y
        ya == IF coord.y = height(b) - 1 THEN 0 ELSE coord.y + 1
        ys == IF coord.y = 0 THEN 0 ELSE coord.y - 1
    IN  << Coord(xs, y), Coord(xa, y), Coord(x, ys), Coord(x, ya),
           Coord(xs, ys), Coord(xa, ys), Coord(xs, ya), Coord(xa, ya) >>

\* Mutant: the West entry is the East neighbour.
get_neighbour_coords_no_west(b, coord) ==
    LET x  == coord.x
        xa == IF coord.x = width(b) - 1 THEN 0 ELSE coord.x + 1
        xs == IF coord.x = 0 THEN width(b) - 1 ELSE coord.x - 1
        y  == coord.y
        ya == IF coord.y = height(b) - 1 THEN 0 ELSE coord.y + 1
        ys == IF coord.y = 0 THEN height(b) - 1 ELSE coord.y - 1
    IN  << Coord(xa, y), Coord(xa, y), Coord(x, ys), Coord(x, ya),
           Coord(xs, ys), Coord(xa, ys), Coord(xs, ya), Coord(xa, ya) >>

\* Mutant: the North West entry is the cell itself.
get_neighbour_coords_with_self(b, coord) ==
    LET x  == coord.x
        xa == IF coord.x = width(b) - 1 THEN 0 ELSE coord.x + 1
        xs == IF coord.x = 0 THEN width(b) - 1 ELSE coord.x - 1
        y  == coord.y
        ya == IF coord.y = height(b) - 1 THEN 0 ELSE coord.y + 1
        ys == IF coord.y = 0 THEN height(b) - 1 ELSE coord.y - 1
    IN  << Coord(xs, y), Coord(xa, y), Coord(x, ys), Coord(x, ya),
           Coord(x, y), Coord(xa, ys), Coord(xs, ya), Coord(xa, ya) >>

\* Mutant: the North East entry repeats North West.
get_neighbour_coords_nw_twice(b, coord) ==
    LET x  == coord.x
        xa == IF coord.x = width(b) - 1 THEN 0 ELSE coord.x + 1
        xs == IF coord.x = 0 THEN width(b) - 1 ELSE coord.x - 1
        y  == coord.y
        ya == IF coord.y = height(b) - 1 THEN 0 ELSE coord.y + 1
        ys == IF coord.y = 0 THEN height(b) - 1 ELSE coord.y - 1
    IN  << Coord(xs, y), Coord(xa, y), Coord(x, ys), Coord(x, ya),
           Coord(xs, ys), Coord(xs, ys), Coord(xs, ya), Coord(xa, ya) >>

get_neighbour_coords(b, coord) ==
    LET x  == coord.x
        xa == IF coord.x = width(b) - 1 THEN 0 ELSE coord.x + 1
        xs == IF coord.x = 0 THEN width(b) - 1 ELSE coord.x - 1
        y  == coord.y
        ya == IF coord.y = height(b) - 1 THEN 0 ELSE coord.y + 1
        ys == IF coord.y = 0 THEN height(b) - 1 ELSE coord.y - 1
    IN  << Coord(xs, y),     \* West
           Coord(xa, y),     \* East
           Coord(x, ys),     \* North
           Coord(x, ya),     \* South
           Coord(xs, ys),    \* North West
           Coord(xa, ys),    \* North East
           Coord(xs, ya),    \* South West
           Coord(xa, ya) >>  \* South East

\* get_live_neighbours_of indexes the board at every neighbour.
get_live_neighbours_of_panics(b, coord) ==
    LET n == get_neighbour_coords(b, coord)
    IN  \E i \in 1..Len(n) : ~InBounds(b, n[i])

\* Mutant: the live neighbours are collected in a set before they are counted.
get_live_neighbours_of_distinct(b, coord) ==
    LET n == get_neighbour_coords(b, coord)
    IN  Cardinality({ n[i] : i \in { j \in 1..Len(n) :
                                      get_cell_state(b, n[j]) = "Alive" } }) % 256

\* .iter().filter(..).count() as u8
get_live_neighbours_of(b, coord) ==
    LET n     == get_neighbour_coords(b, coord)
        alive(c) == get_cell_state(b, c) = "Alive"
    IN  Len(SelectSeq(n, alive)) % 256

\* Length of the longest row: grid.iter().map(Vec::len).max().unwrap_or(0)
RECURSIVE max_len(_)
max_len(grid) ==
    IF Len(grid) = 0 THEN 0
    ELSE LET rest == max_len(Tail(grid))
         IN  IF Len(Head(grid)) > rest THEN Len(Head(grid)) ELSE rest

from_grid_panics(grid) == new_panics(max_len(grid), Len(grid))

\* The two nested for_each loops of from_grid, from entry (x, y) on.
RECURSIVE from_grid_revive(_, _, _, _)
from_grid_revive(b, grid, y, x) ==
    IF y >= Len(grid) THEN b
    ELSE IF x >= Len(grid[y + 1]) THEN from_grid_revive(b, grid, y + 1, 0)
    ELSE IF grid[y + 1][x + 1] = "Alive"
         THEN from_grid_revive(revive_cell(b, Coord(x, y)), grid, y, x + 1)
         ELSE from_grid_revive(b, grid, y, x + 1)

\* Mutant: the board is returned as Board::new made it.
from_grid_blank(grid) == new(max_len(grid), Len(grid))

from_grid(grid) ==
    from_grid_revive(new(max_len(grid), Len(grid)), grid, 0, 0)

\* A String is the sequence of its characters; these are the two characters
\* from_str and to_str treat specially.
LF == "\n"

CR == "\r"

\* string.replace("\r", "")
remove_cr(string) ==
    LET keep(c) == c # CR
    IN  SelectSeq(string, keep)

\* The fold of from_str over the characters: rows is the accumulator.  A
\* newline pushes an empty row; any other character is pushed on the last
\* row, which is popped and pushed back (a new row if there is none).
RECURSIVE from_str_fold(_, _, _)
from_str_fold(rows, chars, alive) ==
    IF Len(chars) = 0 THEN rows
    ELSE LET c == Head(chars)
             row == IF Len(rows) = 0 THEN <<>> ELSE rows[Len(rows)]
             popped == IF Len(rows) = 0 THEN rows
                       ELSE SubSeq(rows, 1, Len(rows) - 1)
             cell_state == IF c = alive THEN "Alive" ELSE "Dead"
         IN  IF c = LF
             THEN from_str_fold(Append(rows, <<>>), Tail(chars), alive)
             ELSE from_str_fold(Append(popped, Append(row, cell_state)),
                                Tail(chars), alive)

\* The grid from_str hands to from_grid.
from_str_grid(string, alive) == from_str_fold(<<>>, remove_cr(string), alive)

from_str_panics(string, alive) ==
    \/ alive = LF
    \/ alive = CR
    \/ from_grid_panics(from_str_grid(string, alive))

from_str(string, alive) == from_grid(from_str_grid(string, alive))

to_str_panics(b, alive, dead) ==
    \/ alive = LF \/ alive = CR
    \/ dead = LF \/ dead = CR

\* The inner map of to_str: a row collected into a String.
row_to_str(row, alive, dead) ==
    [x \in 1..Len(row) |-> IF row[x] = "Alive" THEN alive ELSE dead]

\* [String]::join(sep)
RECURSIVE join(_, _)
join(strings, sep) ==
    IF Len(strings) = 0 THEN <<>>
    ELSE IF Len(strings) = 1 THEN Head(strings)
    ELSE Head(strings) \o << sep >> \o join(Tail(strings), sep)

\* Mutant: the String ends with a newline after the last row too.
to_str_newline_ended(b, alive, dead) ==
    join([y \in 1..Len(b.cells) |-> row_to_str(b.cells[y], alive, dead)], LF)
        \o << LF >>

to_str(b, alive, dead) ==
    join([y \in 1..Len(b.cells) |-> row_to_str(b.cells[y], alive, dead)], LF)

(* ------------------------------- game.rs ------------------------------- *)

\* Mutant: the negation of survives is missing.
will_toggle_no_negation(b, r, c) ==
    IF get_cell_state(b, c) = "Alive"
    THEN survives(r, get_live_neighbours_of(b, c))
    ELSE birthed(r, get_live_neighbours_of(b, c))

\* Mutant: the two match arms are swapped.
will_toggle_swapped(b, r, c) ==
    IF get_cell_state(b, c) = "Alive"
    THEN birthed(r, get_live_neighbours_of(b, c))
    ELSE ~survives(r, get_live_neighbours_of(b, c))

\* The filter closure of next_gen_toggles.
will_toggle(b, r, c) ==
    IF get_cell_state(b, c) = "Alive"
    THEN ~survives(r, get_live_neighbours_of(b, c))
    ELSE birthed(r, get_live_neighbours_of(b, c))

next_gen_toggles_panics(b, r) ==
    \E i \in 1..Len(cell_coords(b)) :
        \/ ~InBounds(b, cell_coords(b)[i])
        \/ get_live_neighbours_of_panics(b, cell_coords(b)[i])

\* Mutant: take_while instead of filter: the list ends at the first
\* coordinate that does not toggle.
RECURSIVE take_while_from(_, _, _)
take_while_from(b, r, i) ==
    IF i > Len(cell_coords(b)) THEN <<>>
    ELSE IF will_toggle(b, r, cell_coords(b)[i])
         THEN << cell_coords(b)[i] >> \o take_while_from(b, r, i + 1)
         ELSE <<>>

next_gen_toggles_take_while(b, r) == take_while_from(b, r, 1)

next_gen_toggles(b, r) ==
    LET keep(c) == will_toggle(b, r, c)
    IN  SelectSeq(cell_coords(b), keep)

\* Mutant: the loop ends after the first coordinate.
apply_toggles_first_only(b, toggles) ==
    IF Len(toggles) = 0 THEN b
    ELSE toggle_cell(b, Head(toggles))

\* The for loop of apply_toggles (for lists on which toggle_cell does not
\* panic, see apply_toggles_panics).
RECURSIVE apply_toggles(_, _)
apply_toggles(b, toggles) ==
    IF Len(toggles) = 0 THEN b
    ELSE apply_toggles(toggle_cell(b, Head(toggles)), Tail(toggles))

apply_toggles_panics(b, toggles) ==
    \E i \in 1..Len(toggles) : ~InBounds(b, toggles[i])

\* Mutant: one pass that toggles each cell as soon as it is decided.
RECURSIVE in_place_from(_, _, _)
in_place_from(b, r, i) ==
    IF i > Len(cell_coords(b)) THEN b
    ELSE IF will_toggle(b, r, cell_coords(b)[i])
         THEN in_place_from(toggle_cell(b, cell_coords(b)[i]), r, i + 1)
         ELSE in_place_from(b, r, i + 1)

advance_in_place(b, r) == in_place_from(b, r, 1)

\* Mutant: the toggles are applied to a fresh board instead of the current one.
advance_from_blank(b, r) ==
    apply_toggles([b EXCEPT !.cells = new(width(b), height(b)).cells],
                  next_gen_toggles(b, r))

\* advance_to_next_gen: the toggles are computed, cloned into coords, and
\* only then applied.
advance_to_next_gen(b, r) ==
    LET toggles == next_gen_toggles(b, r)
        coords  == [i \in 1..Len(toggles) |-> toggles[i]]
    IN  apply_toggles(b, coords)

advance_to_next_gen_panics(b, r) ==
    \/ next_gen_toggles_panics(b, r)
    \/ apply_toggles_panics(b, next_gen_toggles(b, r))

(* ------------------------------- state --------------------------------- *)

VARIABLES
    board,      \* Game.board
    rules,      \* Game.rules
    panicked,   \* TRUE once a call has panicked: the program has ended
    last,       \* the last call: its name, arguments, result, the board before it
    pattern,    \* the inputs of the run: what the board was built from, its size
    gen,        \* generations advanced since construction (counted in SpecPatterns)
    returned    \* what the last get_cell_state, to_str, survives or birthed
                \* call returned: the CellState or the bool as a list of one
                \* entry, the String as the list of its characters; empty
                \* when it returned nothing

vars == <<board, rules, panicked, last, pattern, gen, returned>>

NoCoord == Coord(0, 0)

\* The record of a call: coord is its coordinate argument, coords its list
\* (argument or result), count its number (argument or result).  twice: the call before it was the same apply_toggles
\* call; first is then the board before that earlier call.
Last(op, coord, coords, count, before, twice, first) ==
    [op |-> op, coord |-> coord, coords |-> coords, count |-> count,
     before |-> before, twice |-> twice, first |-> first]

\* The rule sets a Game is built with: Conway's, one without survival, and
\* one with the counts the other two leave out.
RuleSets ==
    { conways,
      [b |-> <<2>>, s |-> <<>>],
      [b |-> <<0, 1, 4, 5, 6, 7, 8>>, s |-> <<0, 1, 4, 5, 6, 7, 8>>] }

\* The sizes <<width, height>> of the boards of Spec.
Sizes == { d \in (1..MaxWidth) \X (1..MaxHeight) : d[1] * d[2] <= MaxCells }

\* The rectangular grids of these sizes.  (A ragged grid gives the board of
\* the grid padded with Dead, so these give every board.)
Grids == UNION { [1..d[2] -> [1..d[1] -> CellState]] : d \in Sizes }

\* All coordinates of the board.
Coords(b) == { Coord(x, y) : x \in 0..(width(b) - 1), y \in 0..(height(b) - 1) }

\* Game::new(b, r)
InitGame(b, r) ==
    /\ board = b
    /\ rules = r
    /\ panicked = FALSE
    /\ last = Last("new", NoCoord, <<>>, 0, b, FALSE, b)
    /\ gen = 0
    /\ returned = <<>>

\* Game::new(Board::from_grid(grid), r)
InitGrid(grid, r) ==
    /\ ~from_grid_panics(grid)
    /\ InitGame(from_grid(grid), r)

\* pattern: what the board was built from (kind, and the place at of a
\* pattern), its size, and the list a caller of apply_toggles holds.
Pattern(kind, at, w, h, list) ==
    [kind |-> kind, at |-> at, w |-> w, h |-> h, list |-> list]

Init ==
    \E grid \in Grids, r \in RuleSets :
        /\ InitGrid(grid, r)
        /\ pattern = Pattern("grid", NoCoord, max_len(grid), Len(grid), <<>>)

InitConways ==
    \E grid \in Grids :
        /\ InitGrid(grid, conways)
        /\ pattern = Pattern("grid", NoCoord, max_len(grid), Len(grid), <<>>)

NoDuplicates(t) == \A i, j \in 1..Len(t) : i # j => t[i] # t[j]

\* The duplicate-free lists of at most n of the coordinates cs.
RECURSIVE ToggleLists(_, _)
ToggleLists(cs, n) ==
    IF n = 0 THEN { <<>> }
    ELSE LET shorter == ToggleLists(cs, n - 1)
         IN  shorter \cup
             { t \in { Append(u, c) : u \in shorter, c \in cs } : NoDuplicates(t) }

\* A board and a list of its coordinates to call apply_toggles with.
InitToggles ==
    \E grid \in Grids :
        \E list \in ToggleLists(Coords(from_grid(grid)), MaxToggles) :
            /\ InitGrid(grid, conways)
            /\ pattern = Pattern("toggles", NoCoord, max_len(grid), Len(grid), list)

\* The cells of a pattern placed at coordinate at of a w x h board: a single
\* cell, a vertical line of three cells whose upper cell is at (a blinker),
\* or a 2x2 block whose upper left cell is at (line and block continue
\* across the edge when at is in the last column or rows).
PatternCells(kind, at, w, h) ==
    IF kind = "single" THEN << at >>
    ELSE IF kind = "blinker"
    THEN << at, Coord(at.x, (at.y + 1) % h), Coord(at.x, (at.y + 2) % h) >>
    ELSE << at,
            Coord((at.x + 1) % w, at.y),
            Coord(at.x, (at.y + 1) % h),
            Coord((at.x + 1) % w, (at.y + 1) % h) >>

\* Board::new(w, h) followed by revive_cell on every cell of the pattern.
RECURSIVE revive_all(_, _)
revive_all(b, coords) ==
    IF Len(coords) = 0 THEN b
    ELSE revive_all(revive_cell(b, Head(coords)), Tail(coords))

PatternBoard(p) == revive_all(new(p.w, p.h), PatternCells(p.kind, p.at, p.w, p.h))

\* The program before it has constructed a board: board holds no Board yet.
NoBoard == [cells |-> <<>>, cell_coords |-> <<>>]

InitStart ==
    /\ board = NoBoard
    /\ rules = conways
    /\ panicked = FALSE
    /\ last = Last("start", NoCoord, <<>>, 0, NoBoard, FALSE, NoBoard)
    /\ pattern = Pattern("none", NoCoord, 0, 0, <<>>)
    /\ gen = 0
    /\ returned = <<>>

\* The rows of at most MaxRowLen cells, and the grids of at most MaxRows such
\* rows: rows of unequal length, empty rows and the empty grid included.
Rows == UNION { [1..n -> CellState] : n \in 0..MaxRowLen }

RaggedGrids == UNION { [1..n -> Rows] : n \in 0..MaxRows }

\* The characters of the strings: two cell characters, newline and carriage
\* return; and the strings of at most MaxText of them.
Chars == { "A", ".", LF, CR }

Texts == UNION { [1..n -> Chars] : n \in 0..MaxText }

\* pattern of a board built by from_str: the string, the alive character and
\* the size of the grid made of them.
TextPattern(string, alive, w, h) ==
    [kind |-> "from_str", at |-> NoCoord, w |-> w, h |-> h, list |-> string,
     alive |-> alive]

\* The boards of SpecEdits, and the coordinates its calls are made with: the
\* coordinates of the largest board and those one column or row beyond it, so
\* every board has coordinates outside it.
EditGrids ==
    UNION { [1..h -> [1..w -> CellState]] : w \in 1..MaxEditDim, h \in 1..MaxEditDim }

AnyCoords == { Coord(x, y) : x \in 0..MaxEditDim, y \in 0..MaxEditDim }

InitEdits ==
    \E grid \in EditGrids :
        /\ InitGrid(grid, conways)
        /\ pattern = Pattern("grid", NoCoord, max_len(grid), Len(grid), <<>>)

\* The numbers of live neighbours a cell can have.
NeighbourCounts == 0..8

\* The rule sets of SpecRules: those of Spec, and all with lists b and s of at
\* most MaxRuleLen numbers of live neighbours.
RuleVecs == UNION { [1..n -> NeighbourCounts] : n \in 0..MaxRuleLen }

AnyRules == RuleSets \cup { [b |-> v, s |-> u] : v \in RuleVecs, u \in RuleVecs }

\* Game::new(Board::new(1, 1), r)
InitRules ==
    \E r \in AnyRules :
        /\ InitGame(new(1, 1), r)
        /\ pattern = Pattern("new", NoCoord, 1, 1, <<>>)

InitPatterns ==
    \E w \in 1..MaxDim, h \in 1..MaxDim, kind \in {"single", "block"} :
        \E x \in 0..(w - 1), y \in 0..(h - 1) :
            /\ kind = "block" => (w >= 2 /\ h >= 2)
            /\ ~new_panics(w, h)
            /\ pattern = Pattern(kind, Coord(x, y), w, h, <<>>)
            /\ InitGame(PatternBoard(Pattern(kind, Coord(x, y), w, h, <<>>)), conways)

\* A vertical line of three cells anywhere on a board of height >= 3.
InitBlinker ==
    \E w \in 1..MaxDim, h \in 3..MaxDim :
        \E x \in 0..(w - 1), y \in 0..(h - 1) :
            /\ ~new_panics(w, h)
            /\ pattern = Pattern("blinker", Coord(x, y), w, h, <<>>)
            /\ InitGame(PatternBoard(Pattern("blinker", Coord(x, y), w, h, <<>>)),
                        conways)

(* ------------------------------ actions -------------------------------- *)

\* A &mut self method of Board on one cell, called through mut_board().
Edit(op, coord, result) ==
    /\ ~panicked
    /\ IF InBounds(board, coord)
       THEN /\ board' = result
            /\ panicked' = FALSE
       ELSE /\ board' = board
            /\ panicked' = TRUE
    /\ last' = Last(op, coord, <<>>, 0, board, FALSE, board)
    /\ UNCHANGED <<rules, pattern, gen, returned>>

KillCell ==
    \E c \in Coords(board) : Edit("kill_cell", c, kill_cell(board, c))

ReviveCell ==
    \E c \in Coords(board) : Edit("revive_cell", c, revive_cell(board, c))

ToggleCell ==
    \E c \in Coords(board) : Edit("toggle_cell", c, toggle_cell(board, c))

\* Mutant: a coordinate outside the board is ignored.
EditAt_ignores(op, coord, result) ==
    /\ ~panicked
    /\ board' = IF InBounds(board, coord) THEN result ELSE board
    /\ panicked' = FALSE
    /\ last' = Last(op, coord, <<>>, 0, board, FALSE, board)
    /\ UNCHANGED <<rules, pattern, gen, returned>>

\* A &mut self method of Board on one cell, called with any coordinate; last
\* records whether the call before it was the same call (twice), and then the
\* board before that call (first).
EditAt(op, coord, result) ==
    /\ ~panicked
    /\ IF InBounds(board, coord)
       THEN /\ board' = result
            /\ panicked' = FALSE
       ELSE /\ board' = board
            /\ panicked' = TRUE
    /\ LET twice == last.op = op /\ last.coord = coord
       IN  last' = Last(op, coord, <<>>, 0, board, twice,
                        IF twice THEN last.before ELSE board)
    /\ UNCHANGED <<rules, pattern, gen, returned>>

KillCellAt ==
    \E c \in AnyCoords : EditAt("kill_cell", c, kill_cell(board, c))

ReviveCellAt ==
    \E c \in AnyCoords : EditAt("revive_cell", c, revive_cell(board, c))

ToggleCellAt ==
    \E c \in AnyCoords : EditAt("toggle_cell", c, toggle_cell(board, c))

\* board.get_cell_state(&c) with any coordinate: the CellState is recorded in
\* returned.
GetCellState ==
    /\ ~panicked
    /\ \E c \in AnyCoords :
        /\ IF InBounds(board, c)
           THEN /\ returned' = << get_cell_state(board, c) >>
                /\ panicked' = FALSE
           ELSE /\ returned' = <<>>
                /\ panicked' = TRUE
        /\ last' = Last("get_cell_state", c, <<>>, 0, board, FALSE, board)
        /\ UNCHANGED <<board, rules, pattern, gen>>

\* rules.survives(n): n is recorded in last.count, the bool in returned.
Survives ==
    /\ ~panicked
    /\ \E n \in NeighbourCounts :
        /\ last' = Last("survives", NoCoord, <<>>, n, board, FALSE, board)
        /\ returned' = << survives(rules, n) >>
    /\ UNCHANGED <<board, rules, panicked, pattern, gen>>

\* rules.birthed(n)
Birthed ==
    /\ ~panicked
    /\ \E n \in NeighbourCounts :
        /\ last' = Last("birthed", NoCoord, <<>>, n, board, FALSE, board)
        /\ returned' = << birthed(rules, n) >>
    /\ UNCHANGED <<board, rules, panicked, pattern, gen>>

\* A constructor of Board, called by a program that has no board yet (last.op
\* is "start"): it panics, or returns the board; input records its arguments.
Construct(op, panics, result, input) ==
    /\ ~panicked
    /\ IF panics
       THEN /\ board' = board
            /\ panicked' = TRUE
       ELSE /\ board' = result
            /\ panicked' = FALSE
    /\ last' = Last(op, NoCoord, <<>>, 0, board, FALSE, board)
    /\ pattern' = input
    /\ UNCHANGED <<rules, gen, returned>>

\* Board::new(w, h)
NewBoard ==
    /\ last.op = "start"
    /\ \E w \in 0..MaxDim, h \in 0..MaxDim :
        Construct("new", new_panics(w, h), new(w, h),
                  Pattern("new", NoCoord, w, h, <<>>))

\* Board::from_grid(&grid)
FromGrid ==
    /\ last.op = "start"
    /\ \E grid \in RaggedGrids :
        Construct("from_grid", from_grid_panics(grid), from_grid(grid),
                  Pattern("from_grid", NoCoord, max_len(grid), Len(grid), grid))

\* Board::from_str(&string, alive)
FromStr ==
    /\ last.op = "start"
    /\ \E string \in Texts, alive \in Chars :
        Construct("from_str", from_str_panics(string, alive),
                  from_str(string, alive),
                  TextPattern(string, alive,
                              max_len(from_str_grid(string, alive)),
                              Len(from_str_grid(string, alive))))

\* board.to_str(alive, dead) on the board constructed: the two characters are
\* recorded in last.coords, the String in returned.
ToStr ==
    /\ ~panicked
    /\ last.op # "start"
    /\ \E alive \in Chars, dead \in Chars :
        /\ IF to_str_panics(board, alive, dead)
           THEN /\ panicked' = TRUE
                /\ returned' = <<>>
           ELSE /\ panicked' = FALSE
                /\ returned' = to_str(board, alive, dead)
        /\ last' = Last("to_str", NoCoord, << alive, dead >>, 0, board, FALSE,
                        board)
        /\ UNCHANGED <<board, rules, pattern, gen>>

\* A &self query: the board is left alone, the result is recorded in last.
GetNeighbourCoords ==
    \E c \in Coords(board) :
        /\ ~panicked
        /\ last' = Last("get_neighbour_coords", c, get_neighbour_coords(board, c),
                        0, board, FALSE, board)
        /\ UNCHANGED <<board, rules, panicked, pattern, gen, returned>>

GetLiveNeighboursOf ==
    \E c \in Coords(board) :
        /\ ~panicked
        /\ IF get_live_neighbours_of_panics(board, c)
           THEN /\ panicked' = TRUE
                /\ last' = Last("get_live_neighbours_of", c, <<>>, 0, board,
                                FALSE, board)
           ELSE /\ panicked' = FALSE
                /\ last' = Last("get_live_neighbours_of", c, <<>>,
                                get_live_neighbours_of(board, c), board,
                                FALSE, board)
        /\ UNCHANGED <<board, rules, pattern, gen, returned>>

NextGenToggles ==
    /\ ~panicked
    /\ IF next_gen_toggles_panics(board, rules)
       THEN /\ panicked' = TRUE
            /\ last' = Last("next_gen_toggles", NoCoord, <<>>, 0, board,
                            FALSE, board)
       ELSE /\ panicked' = FALSE
            /\ last' = Last("next_gen_toggles", NoCoord,
                            next_gen_toggles(board, rules), 0, board,
                            FALSE, board)
    /\ UNCHANGED <<board, rules, pattern, gen, returned>>

\* game.apply_toggles(&toggles)
ApplyTogglesCall(toggles) ==
    /\ ~panicked
    /\ IF apply_toggles_panics(board, toggles)
       THEN /\ board' = board
            /\ panicked' = TRUE
       ELSE /\ board' = apply_toggles(board, toggles)
            /\ panicked' = FALSE
    /\ LET twice == last.op = "apply_toggles" /\ last.coords = toggles
       IN  last' = Last("apply_toggles", NoCoord, toggles, 0, board, twice,
                        IF twice THEN last.before ELSE board)
    /\ UNCHANGED <<rules, pattern, gen, returned>>

\* The two-phase step done by hand: apply_toggles on the (cloned) result of
\* next_gen_toggles.
ApplyNextGenToggles ==
    /\ ~panicked
    /\ ~next_gen_toggles_panics(board, rules)
    /\ LET toggles == next_gen_toggles(board, rules)
       IN  ApplyTogglesCall(toggles)

\* apply_toggles with the list the caller has put together.
ApplyToggles ==
    /\ pattern.kind = "toggles"
    /\ ApplyTogglesCall(pattern.list)

AdvanceCall ==
    /\ ~panicked
    /\ IF advance_to_next_gen_panics(board, rules)
       THEN /\ board' = board
            /\ panicked' = TRUE
       ELSE /\ board' = advance_to_next_gen(board, rules)
            /\ panicked' = FALSE
    /\ last' = Last("advance_to_next_gen", NoCoord, <<>>, 0, board, FALSE, board)
    /\ UNCHANGED <<rules, pattern, returned>>

AdvanceToNextGen ==
    /\ AdvanceCall
    /\ UNCHANGED gen

\* advance_to_next_gen in a run that counts the generations.
AdvancePattern ==
    /\ gen < MaxGen
    /\ AdvanceCall
    /\ gen' = gen + 1

(* --------------------------- specifications ---------------------------- *)

\* A game on any board, with any of the rule sets: edits and generations.
Next ==
    \/ KillCell
    \/ ReviveCell
    \/ ToggleCell
    \/ NextGenToggles
    \/ ApplyNextGenToggles
    \/ AdvanceToNextGen

Spec == Init /\ [][Next]_vars

\* The neighbour count of the cells of any board, between edits.
NextNeighbours ==
    \/ KillCell
    \/ ReviveCell
    \/ ToggleCell
    \/ GetLiveNeighboursOf

SpecNeighbours == InitConways /\ [][NextNeighbours]_vars

\* apply_toggles, called again and again with one list, for any board and
\* any duplicate-free list of at most MaxToggles of its coordinates.
NextToggles == ApplyToggles

SpecToggles == InitToggles /\ [][NextToggles]_vars

\* A single cell or a 2x2 block on boards of up to MaxDim x MaxDim cells,
\* under Conway's rules.
NextPatterns ==
    \/ GetNeighbourCoords
    \/ AdvancePattern

SpecPatterns == InitPatterns /\ [][NextPatterns]_vars

\* A blinker on boards of up to MaxDim x MaxDim cells, under Conway's rules:
\* the toggles of each generation, and the generations.
NextBlinker ==
    \/ NextGenToggles
    \/ AdvancePattern

SpecBlinker == InitBlinker /\ [][NextBlinker]_vars

\* The constructors of Board, each called by a program that has no board yet,
\* and to_str on the board constructed.
NextConstruct ==
    \/ NewBoard
    \/ FromGrid
    \/ FromStr
    \/ ToStr

SpecConstruct == InitStart /\ [][NextConstruct]_vars

\* The calls on single cells of a board of up to MaxEditDim x MaxEditDim
\* cells, with coordinates on the board and outside it.
NextEdits ==
    \/ KillCellAt
    \/ ReviveCellAt
    \/ ToggleCellAt
    \/ GetCellState

SpecEdits == InitEdits /\ [][NextEdits]_vars

\* The two tests of a rule set, for any rule set and any number of live
\* neighbours.
NextRules ==
    \/ Survives
    \/ Birthed

SpecRules == InitRules /\ [][NextRules]_vars

(* ----------------------------- properties ------------------------------ *)

\* The entries of a Vec, as a set.
Elems(v) == { v[i] : i \in 1..Len(v) }

IsAlive(b, c) == get_cell_state(b, c) = "Alive"

\* 1 if the cell is Alive, else 0.
Live(b, c) == IF IsAlive(b, c) THEN 1 ELSE 0

\* How many of the 8 entries of get_neighbour_coords(c) are the coordinate d.
Multiplicity(b, c, d) ==
    Cardinality({ i \in 1..8 : get_neighbour_coords(b, c)[i] = d })

\* C1: after advance_to_next_gen every cell is Alive iff it was Alive with a
\* live-neighbour count (of the board before the call) in S, or Dead with a
\* live-neighbour count (of the board before the call) in B.
SimultaneousUpdate ==
    (last.op = "advance_to_next_gen" /\ ~panicked) =>
        \A c \in Coords(last.before) :
            IsAlive(board, c) <=>
                \/ /\ IsAlive(last.before, c)
                   /\ get_live_neighbours_of(last.before, c) \in Elems(rules.s)
                \/ /\ ~IsAlive(last.before, c)
                   /\ get_live_neighbours_of(last.before, c) \in Elems(rules.b)

\* An advance on a 3x3 board in which one cell died and another was born.
SimultaneousUpdateWitness ==
    /\ last.op = "advance_to_next_gen"
    /\ ~panicked
    /\ pattern.w = 3 /\ pattern.h = 3
    /\ \E c, d \in Coords(board) :
        /\ IsAlive(last.before, c) /\ ~IsAlive(board, c)
        /\ ~IsAlive(last.before, d) /\ IsAlive(board, d)

\* C2: the result of next_gen_toggles holds no coordinate twice and none
\* outside the board, and holds a coordinate c of the board iff c is Alive and
\* survives(n) is false, or c is Dead and birthed(n) is true, n being the
\* live-neighbour count of c.
TogglesExact ==
    (last.op = "next_gen_toggles" /\ ~panicked) =>
        /\ NoDuplicates(last.coords)
        /\ \A i \in 1..Len(last.coords) :
            /\ last.coords[i].x \in 0..(pattern.w - 1)
            /\ last.coords[i].y \in 0..(pattern.h - 1)
        /\ \A c \in Coords(board) :
            (c \in Elems(last.coords)) <=>
                \/ /\ IsAlive(board, c)
                   /\ get_live_neighbours_of(board, c) \notin Elems(rules.s)
                \/ /\ ~IsAlive(board, c)
                   /\ get_live_neighbours_of(board, c) \in Elems(rules.b)

\* A result with a dying and a born cell, on a board that keeps other cells.
TogglesExactWitness ==
    /\ last.op = "next_gen_toggles"
    /\ ~panicked
    /\ Len(last.coords) >= 2
    /\ Len(last.coords) < Len(cell_coords(board))
    /\ \E i, j \in 1..Len(last.coords) :
        IsAlive(board, last.coords[i]) /\ ~IsAlive(board, last.coords[j])

\* The 8 offsets of a neighbourhood.
Offsets == { o \in {-1, 0, 1} \X {-1, 0, 1} : o # <<0, 0>> }

\* The coordinate at offset o of c on the torus of w x h cells.
Wrapped(c, o, w, h) == Coord((c.x + o[1] + w) % w, (c.y + o[2] + h) % h)

\* C3: get_neighbour_coords returns 8 coordinates, all on the board, and they
\* are the coordinates ((x + dx) mod w, (y + dy) mod h) of the 8 offsets, each
\* as often as the offsets give it; the west neighbour (the first entry) of
\* (0, y) is (w - 1, y) and the north neighbour (the third) of (x, 0) is
\* (x, h - 1).
ToroidalNeighbours ==
    last.op = "get_neighbour_coords" =>
        LET n == last.coords
            c == last.coord
            w == pattern.w
            h == pattern.h
        IN  /\ Len(n) = 8
            /\ \A i \in 1..Len(n) : n[i].x \in 0..(w - 1) /\ n[i].y \in 0..(h - 1)
            /\ \A d \in Coords(board) :
                Cardinality({ i \in 1..Len(n) : n[i] = d })
                    = Cardinality({ o \in Offsets : Wrapped(c, o, w, h) = d })
            /\ c.x = 0 => n[1] = Coord(w - 1, c.y)
            /\ c.y = 0 => n[3] = Coord(c.x, h - 1)

\* The neighbours of the corner (0, 0) of a 5x5 board.
ToroidalNeighboursWitness ==
    /\ last.op = "get_neighbour_coords"
    /\ pattern.w = 5 /\ pattern.h = 5
    /\ last.coord = Coord(0, 0)
    /\ last.coords[1] = Coord(4, 0)
    /\ last.coords[3] = Coord(0, 4)
    /\ last.coords[5] = Coord(4, 4)

\* C4, as claimed: on every board the 8 coordinates returned by
\* get_neighbour_coords are pairwise different.
NeighboursDistinctOnEveryBoard ==
    last.op = "get_neighbour_coords" => NoDuplicates(last.coords)

\* C4, amended: on every board of width >= 3 and height >= 3 the 8
\* coordinates returned by get_neighbour_coords are pairwise different.
NeighboursDistinct ==
    (last.op = "get_neighbour_coords" /\ pattern.w >= 3 /\ pattern.h >= 3) =>
        NoDuplicates(last.coords)

\* The 8 different neighbours of a corner of a 3x3 board.
NeighboursDistinctWitness ==
    /\ last.op = "get_neighbour_coords"
    /\ pattern.w = 3 /\ pattern.h = 3
    /\ last.coord = Coord(2, 2)
    /\ Cardinality(Elems(last.coords)) = 8

\* C5: get_live_neighbours_of(c) is in 0..8 and is the number of entries of
\* get_neighbour_coords(c) whose cell is Alive; it follows the board: after a
\* kill, revive or toggle of a cell d the count of every cell c has changed by
\* the change of d, once for every entry of get_neighbour_coords(c) that is d.
LiveNeighbourCount ==
    /\ (last.op = "get_live_neighbours_of" /\ ~panicked) =>
        /\ last.count \in 0..8
        /\ last.count =
            Cardinality({ i \in 1..8 :
                IsAlive(board, get_neighbour_coords(board, last.coord)[i]) })
    /\ (last.op \in {"kill_cell", "revive_cell", "toggle_cell"} /\ ~panicked) =>
        \A c \in Coords(board) :
            get_live_neighbours_of(board, c) =
                get_live_neighbours_of(last.before, c)
                + Multiplicity(board, c, last.coord)
                  * (Live(board, last.coord) - Live(last.before, last.coord))

\* A count of 3 on a 3x3 board, where every neighbour is another cell.
LiveNeighbourCountWitness ==
    /\ last.op = "get_live_neighbours_of"
    /\ ~panicked
    /\ pattern.w = 3 /\ pattern.h = 3
    /\ last.count = 3

\* C6: a second apply_toggles call with the same duplicate-free list of
\* coordinates of the board gives back the board before the first call.
ApplyTogglesInvolution ==
    (last.op = "apply_toggles" /\ last.twice /\ ~panicked
        /\ NoDuplicates(last.coords)) =>
        board = last.first

\* The second of two calls with a list of two coordinates.
ApplyTogglesInvolutionWitness ==
    /\ last.op = "apply_toggles"
    /\ last.twice
    /\ ~panicked
    /\ Len(last.coords) = 2
    /\ board # last.before
    /\ board = last.first

\* C7: an advance_to_next_gen from a board for which next_gen_toggles is empty
\* leaves the board as it was, and next_gen_toggles is empty again (so every
\* further advance_to_next_gen starts from such a board too).
StableStaysStable ==
    (last.op = "advance_to_next_gen" /\ ~panicked
        /\ Len(next_gen_toggles(last.before, rules)) = 0) =>
        /\ board = last.before
        /\ Len(next_gen_toggles(board, rules)) = 0

\* An advance from a stable board with live cells.
StableStaysStableWitness ==
    /\ last.op = "advance_to_next_gen"
    /\ ~panicked
    /\ Len(next_gen_toggles(last.before, rules)) = 0
    /\ \E c \in Coords(board) : IsAlive(board, c)
    /\ \E c \in Coords(board) : ~IsAlive(board, c)

\* C8: advance_to_next_gen never panics, whatever edits and generations came
\* before it, and leaves a board of the size it was constructed with.
AdvanceIsTotal ==
    last.op = "advance_to_next_gen" =>
        /\ ~panicked
        /\ height(board) = pattern.h
        /\ \A y \in 1..height(board) : Len(board.cells[y]) = pattern.w
        /\ \A y \in 1..height(board) : \A x \in 1..pattern.w :
            board.cells[y][x] \in CellState

\* An advance with an empty toggle set after an edit-made board, and one that
\* changed the board.
AdvanceIsTotalWitness ==
    /\ last.op = "advance_to_next_gen"
    /\ ~panicked
    /\ pattern.w = 3 /\ pattern.h = 3
    /\ board # last.before

\* C9, as claimed: a single live cell on any board is Dead after one
\* advance_to_next_gen under Conway's rules.
SingleCellDiesOnAnyBoard ==
    (pattern.kind = "single" /\ gen = 1) =>
        (~panicked /\ ~IsAlive(board, pattern.at))

\* C9, amended: a single live cell on a board of width >= 2 and height >= 2,
\* or on the 1x1 board, is Dead after one advance_to_next_gen under Conway's
\* rules.
SingleCellDies ==
    (/\ pattern.kind = "single"
     /\ gen = 1
     /\ \/ pattern.w >= 2 /\ pattern.h >= 2
        \/ pattern.w = 1 /\ pattern.h = 1) =>
        (~panicked /\ ~IsAlive(board, pattern.at))

\* The cell of a 5x5 board with one live cell, after one generation.
SingleCellDiesWitness ==
    /\ pattern.kind = "single"
    /\ gen = 1
    /\ pattern.w = 5 /\ pattern.h = 5
    /\ IsAlive(PatternBoard(pattern), pattern.at)
    /\ get_live_neighbours_of(PatternBoard(pattern), pattern.at) = 0
    /\ ~IsAlive(board, pattern.at)

\* The cells of the block all have 3 live neighbours, and the board is the
\* board as constructed.
BlockStands ==
    /\ ~panicked
    /\ \A i \in 1..4 :
        get_live_neighbours_of(board,
            PatternCells(pattern.kind, pattern.at, pattern.w, pattern.h)[i]) = 3
    /\ board = PatternBoard(pattern)

\* C10, as claimed: a 2x2 block on any board of width >= 2 and height >= 2
\* has 3 live neighbours at each of its cells and is unchanged after any
\* number of generations, under Conway's rules.
BlockStationaryOnAnyBoard ==
    (pattern.kind = "block" /\ pattern.w >= 2 /\ pattern.h >= 2) => BlockStands

\* C10, amended: the same on any board of width >= 3 and height >= 3.
BlockStationary ==
    (pattern.kind = "block" /\ pattern.w >= 3 /\ pattern.h >= 3) => BlockStands

\* A block on a 4x4 board after two generations.
BlockStationaryWitness ==
    /\ pattern.kind = "block"
    /\ pattern.w = 4 /\ pattern.h = 4
    /\ gen = 2
    /\ last.op = "advance_to_next_gen"
    /\ BlockStands

\* The Alive cells of a board.
AliveCells(b) == { c \in Coords(b) : IsAlive(b, c) }

\* The board is the 5x5 board whose only Alive cells are (2,1), (2,2), (2,3).
VerticalBlinker(b) ==
    /\ width(b) = 5
    /\ height(b) = 5
    /\ AliveCells(b) = { Coord(2, 1), Coord(2, 2), Coord(2, 3) }

\* C11: on the 5x5 board whose only Alive cells are (2,1), (2,2), (2,3),
\* under Conway's rules, next_gen_toggles returns (2,1), (2,3), (1,2), (3,2)
\* and nothing else, each once, and after one advance_to_next_gen the only
\* Alive cells are (1,2), (2,2), (3,2).
BlinkerScenario ==
    /\ (last.op = "next_gen_toggles" /\ VerticalBlinker(board)) =>
        /\ ~panicked
        /\ Len(last.coords) = 4
        /\ Elems(last.coords)
            = { Coord(2, 1), Coord(2, 3), Coord(1, 2), Coord(3, 2) }
    /\ (last.op = "advance_to_next_gen" /\ VerticalBlinker(last.before)) =>
        /\ ~panicked
        /\ width(board) = 5
        /\ height(board) = 5
        /\ AliveCells(board) = { Coord(1, 2), Coord(2, 2), Coord(3, 2) }

\* The first advance of the vertical blinker of the 5x5 board.
BlinkerScenarioWitness ==
    /\ last.op = "advance_to_next_gen"
    /\ gen = 1
    /\ rules = conways
    /\ VerticalBlinker(last.before)
    /\ AliveCells(board) = { Coord(1, 2), Coord(2, 2), Coord(3, 2) }

\* C12: for all width >= 1 and height >= 1, Board::new(width, height) returns
\* a board with width() = width and height() = height whose cells are all
\* Dead and whose cell_coords() holds every (x, y) with 0 <= x < width and
\* 0 <= y < height.
NewBoardAllDead ==
    (last.op = "new" /\ pattern.w >= 1 /\ pattern.h >= 1) =>
        /\ ~panicked
        /\ width(board) = pattern.w
        /\ height(board) = pattern.h
        /\ \A x \in 0..(pattern.w - 1), y \in 0..(pattern.h - 1) :
            /\ InBounds(board, Coord(x, y))
            /\ get_cell_state(board, Coord(x, y)) = "Dead"
            /\ Coord(x, y) \in Elems(cell_coords(board))

\* Board::new(3, 2) has returned.
NewBoardAllDeadWitness ==
    /\ last.op = "new"
    /\ ~panicked
    /\ pattern.w = 3 /\ pattern.h = 2
    /\ width(board) = 3 /\ height(board) = 2
    /\ Len(cell_coords(board)) = 6

\* The rows of a grid are all empty (so also: there is no row).
OnlyEmptyRows(grid) == \A y \in 1..Len(grid) : Len(grid[y]) = 0

\* C13: Board::new panics when the width or the height is 0, and from_grid
\* panics when the grid has no row or only empty rows; the program then has
\* no board.
ZeroDimensionRefused ==
    /\ (last.op = "new" /\ (pattern.w = 0 \/ pattern.h = 0)) =>
        (panicked /\ board = NoBoard)
    /\ (last.op = "from_grid" /\ OnlyEmptyRows(pattern.list)) =>
        (panicked /\ board = NoBoard)

\* from_grid has panicked on a grid of two empty rows.
ZeroDimensionRefusedWitness ==
    /\ last.op = "from_grid"
    /\ pattern.list = << <<>>, <<>> >>
    /\ panicked
    /\ board = NoBoard

\* The length of the longest of the rows, 0 when there is no row.
LongestRow(rows) ==
    IF Len(rows) = 0 THEN 0
    ELSE CHOOSE n \in { Len(rows[y]) : y \in 1..Len(rows) } :
            \A y \in 1..Len(rows) : Len(rows[y]) <= n

\* C14: from_grid(rows) returns a board for every list of rows that has a
\* non-empty row; its height is the number of rows, its width the length of
\* the longest row, all its rows are that long, and its cell (x, y) is Alive
\* iff x < length(rows[y]) and rows[y][x] is Alive (so the cells beyond the
\* end of a short row are Dead).
FromGridCells ==
    /\ (last.op = "from_grid" /\ ~OnlyEmptyRows(pattern.list)) => ~panicked
    /\ (last.op = "from_grid" /\ ~panicked) =>
        LET rows == pattern.list
        IN  /\ height(board) = Len(rows)
            /\ width(board) = LongestRow(rows)
            /\ \A y \in 1..Len(rows) : Len(board.cells[y]) = LongestRow(rows)
            /\ \A x \in 0..(LongestRow(rows) - 1), y \in 0..(Len(rows) - 1) :
                IsAlive(board, Coord(x, y)) <=>
                    /\ x < Len(rows[y + 1])
                    /\ rows[y + 1][x + 1] = "Alive"

\* A board from a grid whose first row is shorter than its second.
FromGridCellsWitness ==
    /\ last.op = "from_grid"
    /\ ~panicked
    /\ pattern.list = << << "Alive" >>, << "Dead", "Alive" >> >>
    /\ width(board) = 2 /\ height(board) = 2
    /\ IsAlive(board, Coord(0, 0))
    /\ ~IsAlive(board, Coord(1, 0))
    /\ IsAlive(board, Coord(1, 1))

\* The rows of a text: the pieces between its newline characters, one more
\* than there are newline characters.
RECURSIVE SplitRows(_)
SplitRows(text) ==
    IF \A i \in 1..Len(text) : text[i] # LF THEN << text >>
    ELSE LET i == CHOOSE j \in 1..Len(text) :
                    text[j] = LF /\ \A k \in 1..(j - 1) : text[k] # LF
         IN  << SubSeq(text, 1, i - 1) >>
                 \o SplitRows(SubSeq(text, i + 1, Len(text)))

\* The text without its carriage returns.
WithoutCR(text) ==
    LET keep(c) == c # CR
    IN  SelectSeq(text, keep)

\* The board is the board of the rows of the text: one row of cells for each
\* row of the text, as wide as the longest, Alive where the row has the alive
\* character.
BoardOfRows(b, text, alive) ==
    LET rows == SplitRows(WithoutCR(text))
    IN  /\ height(b) = Cardinality({ i \in 1..Len(text) : text[i] = LF }) + 1
        /\ height(b) = Len(rows)
        /\ width(b) = LongestRow(rows)
        /\ \A y \in 1..height(b) : Len(b.cells[y]) = width(b)
        /\ \A c \in Coords(b) :
            IsAlive(b, c) <=>
                /\ c.x < Len(rows[c.y + 1])
                /\ rows[c.y + 1][c.x + 1] = alive

\* C15, as claimed: a board returned by from_str(text, alive) has one row for
\* each newline-separated row of the text without its carriage returns
\* (height = number of newline characters + 1), the width of the longest
\* row, and cell (x, y) Alive iff row y has the alive character at position x.
TextFormat ==
    (last.op = "from_str" /\ ~panicked) =>
        BoardOfRows(board, pattern.list, pattern.alive)

\* The text begins with a newline, carriage returns aside.
LeadingNewline(text) ==
    Len(WithoutCR(text)) > 0 /\ Head(WithoutCR(text)) = LF

\* C15, for the texts that do not begin with a newline: the board is the
\* board of the rows of the text.
TextFormatNoLeadingNewline ==
    (last.op = "from_str" /\ ~panicked /\ ~LeadingNewline(pattern.list)) =>
        BoardOfRows(board, pattern.list, pattern.alive)

\* C15, for the texts that begin with a newline: the board is the board of
\* the rows of the text after that newline, so the empty first row is lost.
TextFormatLeadingNewline ==
    (last.op = "from_str" /\ ~panicked /\ LeadingNewline(pattern.list)) =>
        BoardOfRows(board, Tail(WithoutCR(pattern.list)), pattern.alive)

\* from_str has returned the 1x1 board for a newline followed by the alive
\* character, a text of two rows.
TextFormatLeadingNewlineReached ==
    /\ last.op = "from_str"
    /\ ~panicked
    /\ pattern.list = << LF, "A" >>
    /\ pattern.alive = "A"
    /\ height(board) = 1

\* The text is made of 'A', '.' and newlines and does not end with a newline.
PlainText(text) ==
    /\ \A i \in 1..Len(text) : text[i] \in { "A", ".", LF }
    /\ Len(text) > 0 => text[Len(text)] # LF

\* The text is made of 'A', '.' and newlines, and its rows all have the same
\* length, which is not 0.
RectangularText(text) ==
    /\ \A i \in 1..Len(text) : text[i] \in { "A", ".", LF }
    /\ \A y \in 1..Len(SplitRows(text)) :
        /\ Len(SplitRows(text)[y]) = Len(SplitRows(text)[1])
        /\ Len(SplitRows(text)[y]) > 0

\* to_str('A', '.') has been called on the board of from_str(s, 'A').
RoundTripCall ==
    /\ last.op = "to_str"
    /\ last.coords = << "A", "." >>
    /\ pattern.kind = "from_str"
    /\ pattern.alive = "A"

\* C16, as claimed: for every string s of 'A', '.' and newlines that does not
\* end with a newline, from_str(s, 'A') returns a board and to_str('A', '.')
\* of that board is s.
RoundTripAnyText ==
    /\ (last.op = "from_str" /\ pattern.alive = "A" /\ PlainText(pattern.list)) =>
        ~panicked
    /\ (RoundTripCall /\ PlainText(pattern.list)) =>
        (~panicked /\ returned = pattern.list)

\* C16, amended: the same for every string s of 'A', '.' and newlines whose
\* rows all have the same length >= 1.
RoundTrip ==
    /\ (last.op = "from_str" /\ pattern.alive = "A"
            /\ RectangularText(pattern.list)) =>
        ~panicked
    /\ (RoundTripCall /\ RectangularText(pattern.list)) =>
        (~panicked /\ returned = pattern.list)

\* The round trip of a text of two rows of two characters.
RoundTripWitness ==
    /\ RoundTripCall
    /\ ~panicked
    /\ pattern.list = << "A", ".", LF, ".", "A" >>
    /\ returned = pattern.list

\* C17: get_cell_state, kill_cell, revive_cell and toggle_cell called with a
\* coordinate (x, y) with x >= width or y >= height panic; the board is as it
\* was before the call and no cell state is returned.
OutOfBoundsPanics ==
    (/\ last.op \in {"get_cell_state", "kill_cell", "revive_cell", "toggle_cell"}
     /\ \/ last.coord.x >= width(last.before)
        \/ last.coord.y >= height(last.before)) =>
        /\ panicked
        /\ board = last.before
        /\ last.op = "get_cell_state" => returned = <<>>

\* toggle_cell has panicked at (2, 0) of a 2x2 board with (0, 0) Alive, the
\* cell a wrap of x would have reached.
OutOfBoundsPanicsWitness ==
    /\ last.op = "toggle_cell"
    /\ last.coord = Coord(2, 0)
    /\ width(last.before) = 2 /\ height(last.before) = 2
    /\ IsAlive(last.before, Coord(0, 0))
    /\ panicked
    /\ board = last.before

\* C20: a toggle_cell(c) with c on the board turns the cell c from Alive to
\* Dead and from Dead to Alive, and the second of two toggle_cell(c) calls in
\* a row leaves the board, the cell c included, as it was before the first.
ToggleCellInvolution ==
    /\ (last.op = "toggle_cell" /\ InBounds(last.before, last.coord)) =>
        /\ ~panicked
        /\ IsAlive(last.before, last.coord) => ~IsAlive(board, last.coord)
        /\ ~IsAlive(last.before, last.coord) => IsAlive(board, last.coord)
    /\ (last.op = "toggle_cell" /\ last.twice
            /\ InBounds(last.before, last.coord)) =>
        /\ ~panicked
        /\ get_cell_state(board, last.coord)
            = get_cell_state(last.first, last.coord)
        /\ board = last.first

\* The second of two toggle_cell((1, 1)) calls on a 2x2 board on which (1, 1)
\* was Alive and another cell too.
ToggleCellInvolutionWitness ==
    /\ last.op = "toggle_cell"
    /\ last.twice
    /\ ~panicked
    /\ last.coord = Coord(1, 1)
    /\ width(board) = 2 /\ height(board) = 2
    /\ IsAlive(last.first, Coord(1, 1))
    /\ IsAlive(last.first, Coord(0, 1))
    /\ ~IsAlive(last.before, Coord(1, 1))
    /\ board = last.first

\* C18: for every rule set and every n in 0..8, survives(n) is true iff n is
\* one of the numbers of S and birthed(n) is true iff n is one of the numbers
\* of B; for the rule set conways(), survives(n) is true for n = 2 and n = 3
\* only and birthed(n) for n = 3 only.
RuleMembership ==
    /\ last.op = "survives" =>
        /\ returned = << \E i \in 1..Len(rules.s) : rules.s[i] = last.count >>
        /\ rules = conways => returned = << last.count \in {2, 3} >>
    /\ last.op = "birthed" =>
        /\ returned = << \E i \in 1..Len(rules.b) : rules.b[i] = last.count >>
        /\ rules = conways => returned = << last.count = 3 >>

\* survives(3) has returned true under Conway's rules.
RuleMembershipWitness ==
    /\ last.op = "survives"
    /\ rules = [b |-> <<3>>, s |-> <<2, 3>>]
    /\ last.count = 3
    /\ returned = << TRUE >>

\* C19: in every state of a game on a constructed board, after any kill_cell,
\* revive_cell, toggle_cell, apply_toggles and advance_to_next_gen calls,
\* width() and height() are the width and height of the construction and at
\* least 1, every row has width() cells, cell_coords() is what it was before
\* the last call (so what it was at construction) and holds width * height
\* coordinates, none twice, none outside the board, and every coordinate of
\* the board.
BoardShape ==
    /\ width(board) = pattern.w
    /\ height(board) = pattern.h
    /\ width(board) >= 1
    /\ height(board) >= 1
    /\ \A y \in 1..height(board) : Len(board.cells[y]) = width(board)
    /\ cell_coords(board) = cell_coords(last.before)
    /\ Len(cell_coords(board)) = width(board) * height(board)
    /\ NoDuplicates(cell_coords(board))
    /\ \A i \in 1..Len(cell_coords(board)) :
        /\ cell_coords(board)[i].x \in 0..(width(board) - 1)
        /\ cell_coords(board)[i].y \in 0..(height(board) - 1)
    /\ \A x \in 0..(pattern.w - 1), y \in 0..(pattern.h - 1) :
        Coord(x, y) \in Elems(cell_coords(board))

\* A 3x2 board that an advance_to_next_gen has changed.
BoardShapeWitness ==
    /\ last.op = "advance_to_next_gen"
    /\ ~panicked
    /\ pattern.w = 3 /\ pattern.h = 2
    /\ board # last.before
    /\ Len(cell_coords(board)) = 6
    /\ Len(board.cells[2]) = 3

\* C21: a revive_cell(c) with c on the board leaves c Alive and a kill_cell(c)
\* leaves c Dead, whatever c was (so the second of two such calls in a row
\* changes nothing), a toggle_cell(c) flips c; after each of them every other
\* cell, the width, the height, cell_coords() and the rule set of the game
\* are what they were before the call.
EditTouchesOneCell ==
    (/\ last.op \in {"kill_cell", "revive_cell", "toggle_cell"}
     /\ InBounds(last.before, last.coord)) =>
        /\ ~panicked
        /\ last.op = "revive_cell" => IsAlive(board, last.coord)
        /\ last.op = "kill_cell" => ~IsAlive(board, last.coord)
        /\ last.op = "toggle_cell" =>
            (IsAlive(board, last.coord) <=> ~IsAlive(last.before, last.coord))
        /\ (last.op \in {"kill_cell", "revive_cell"} /\ last.twice) =>
            board = last.before
        /\ width(board) = width(last.before)
        /\ height(board) = height(last.before)
        /\ \A y \in 1..height(board) :
            Len(board.cells[y]) = Len(last.before.cells[y])
        /\ \A c \in Coords(last.before) :
            c # last.coord =>
                get_cell_state(board, c) = get_cell_state(last.before, c)
        /\ cell_coords(board) = cell_coords(last.before)
        /\ rules = conways

\* The second of two kill_cell((0, 0)) calls on a 2x2 board whose cell (1, 0),
\* in the same row, is Alive.
EditTouchesOneCellWitness ==
    /\ last.op = "kill_cell"
    /\ last.twice
    /\ ~panicked
    /\ last.coord = Coord(0, 0)
    /\ width(board) = 2 /\ height(board) = 2
    /\ IsAlive(last.first, Coord(0, 0))
    /\ IsAlive(board, Coord(1, 0))
    /\ ~IsAlive(board, Coord(0, 0))
    /\ board = last.before

\* The orders of n entries, for every length n of a list of SpecToggles.
Orders ==
    [n \in 0..MaxToggles |-> { f \in [1..n -> 1..n] : NoDuplicates(f) }]

\* The lists that hold the entries of the list t in any order.
Permutations(t) ==
    { [i \in 1..Len(t) |-> t[f[i]]] : f \in Orders[Len(t)] }

\* C22: after apply_toggles with a duplicate-free list of coordinates of the
\* board, a cell's state differs from its state before the call iff its
\* coordinate is in the list, and apply_toggles with any permutation of the
\* list, on the board before the call, gives the same board.  (The
\* permutations are tried on the first call of a game: the games start from
\* every board with every list.)
ApplyTogglesOrderIndependent ==
    (last.op = "apply_toggles" /\ NoDuplicates(last.coords)
        /\ \A i \in 1..Len(last.coords) : InBounds(last.before, last.coords[i])) =>
        /\ ~panicked
        /\ \A c \in Coords(last.before) :
            (get_cell_state(board, c) # get_cell_state(last.before, c))
                <=> c \in Elems(last.coords)
        /\ ~last.twice =>
            \A p \in Permutations(last.coords) :
                /\ ~apply_toggles_panics(last.before, p)
                /\ apply_toggles(last.before, p) = board

\* An apply_toggles call with two coordinates of a 3x3 board, one of an Alive
\* and one of a Dead cell.
ApplyTogglesOrderIndependentWitness ==
    /\ last.op = "apply_toggles"
    /\ ~panicked
    /\ Len(last.coords) = 2
    /\ pattern.w = 3 /\ pattern.h = 3
    /\ IsAlive(last.before, last.coords[1])
    /\ ~IsAlive(last.before, last.coords[2])
    /\ ~IsAlive(board, last.coords[1])
    /\ IsAlive(board, last.coords[2])
    /\ ~last.twice
    /\ Cardinality(Permutations(last.coords)) = 2

\* The list v in other orders: reversed, begun at any of its entries, and with
\* any two entries next to each other exchanged.
Reorderings(v) ==
    LET n == Len(v)
    IN  { [i \in 1..n |-> v[n + 1 - i]] }
        \cup { [i \in 1..n |-> v[((i + k - 1) % n) + 1]] : k \in 1..n }
        \cup { [i \in 1..n |-> IF i = k THEN v[k + 1]
                                ELSE IF i = k + 1 THEN v[k] ELSE v[i]] :
                 k \in 1..(n - 1) }

\* The board a game given the call recorded in last has after it, when its
\* board was b and its rule set r.
BoardAfter(b, r) ==
    CASE last.op = "kill_cell" -> kill_cell(b, last.coord)
      [] last.op = "revive_cell" -> revive_cell(b, last.coord)
      [] last.op = "toggle_cell" -> toggle_cell(b, last.coord)
      [] last.op = "apply_toggles" -> apply_toggles(b, last.coords)
      [] last.op = "advance_to_next_gen" -> advance_to_next_gen(b, r)
      [] OTHER -> b

\* C23: the board after a kill_cell, revive_cell, toggle_cell, apply_toggles
\* or advance_to_next_gen call is the board any game has after that call
\* whose board and rule set were equal before it (so two games that start
\* equal and are given the same calls stay equal); and the cells after an
\* advance_to_next_gen, and the set of coordinates next_gen_toggles returns,
\* are the same when cell_coords() of the board before the call is taken in
\* another order.
Deterministic ==
    /\ ~panicked
    /\ board = BoardAfter(last.before, rules)
    /\ last.op = "advance_to_next_gen" =>
        \A order \in Reorderings(cell_coords(last.before)) :
            LET reordered == [last.before EXCEPT !.cell_coords = order]
            IN  /\ ~advance_to_next_gen_panics(reordered, rules)
                /\ advance_to_next_gen(reordered, rules).cells = board.cells
                /\ Elems(next_gen_toggles(reordered, rules))
                    = Elems(next_gen_toggles(last.before, rules))

\* An advance_to_next_gen that changed some but not all cells of a 3x3 board.
DeterministicWitness ==
    /\ last.op = "advance_to_next_gen"
    /\ ~panicked
    /\ pattern.w = 3 /\ pattern.h = 3
    /\ Len(next_gen_toggles(last.before, rules)) \in 2..7
    /\ Cardinality(Reorderings(cell_coords(last.before))) >= 9
    /\ board # last.before

\* C24: on every board, for all its coordinates a and b, b is as often among
\* the 8 entries of get_neighbour_coords(a) as a is among the 8 entries of
\* get_neighbour_coords(b).
NeighbourhoodSymmetric ==
    last.op = "get_neighbour_coords" =>
        \A d \in Coords(board) :
            LET back == get_neighbour_coords(board, d)
            IN  Cardinality({ i \in 1..Len(last.coords) : last.coords[i] = d })
                    = Cardinality({ i \in 1..Len(back) : back[i] = last.coord })

\* On a board of width 2 the cell (1, 0) is twice a neighbour of (0, 0), and
\* (0, 0) twice a neighbour of (1, 0).
NeighbourhoodSymmetricWitness ==
    /\ last.op = "get_neighbour_coords"
    /\ pattern.w = 2 /\ pattern.h = 3
    /\ last.coord = Coord(0, 0)
    /\ Cardinality({ i \in 1..8 : last.coords[i] = Coord(1, 0) }) = 2
    /\ Multiplicity(board, Coord(1, 0), Coord(0, 0)) = 2

\* C25: on every board of width >= 3 and height >= 3 the 8 coordinates of
\* get_neighbour_coords(c) are pairwise different and none is c, and
\* get_live_neighbours_of(c) is the number of Alive cells among them: c is
\* not counted and no cell is counted twice.
NeighboursExcludeSelf ==
    (last.op = "get_neighbour_coords" /\ width(board) >= 3 /\ height(board) >= 3) =>
        /\ Cardinality(Elems(last.coords)) = 8
        /\ last.coord \notin Elems(last.coords)
        /\ ~get_live_neighbours_of_panics(board, last.coord)
        /\ get_live_neighbours_of(board, last.coord)
            = Cardinality({ d \in Coords(board) \ { last.coord } :
                            d \in Elems(last.coords) /\ IsAlive(board, d) })

\* The neighbours of a cell of the block on a 3x3 board: the cell is Alive
\* and is not among them, and 3 of them are Alive.
NeighboursExcludeSelfWitness ==
    /\ last.op = "get_neighbour_coords"
    /\ pattern.kind = "block"
    /\ pattern.w = 3 /\ pattern.h = 3
    /\ last.coord = pattern.at
    /\ IsAlive(board, last.coord)
    /\ last.coord \notin Elems(last.coords)
    /\ get_live_neighbours_of(board, last.coord) = 3

\* C26: the blinker of the 5x5 board, the vertical line (2,1), (2,2), (2,3),
\* is the board as constructed after every even number of advance_to_next_gen
\* calls and the horizontal line (1,2), (2,2), (3,2) after every odd number,
\* and 3 cells are Alive in every state.
BlinkerPeriodTwo ==
    (pattern.kind = "blinker" /\ pattern.w = 5 /\ pattern.h = 5
        /\ pattern.at = Coord(2, 1)) =>
        /\ ~panicked
        /\ gen % 2 = 0 =>
            /\ board = PatternBoard(pattern)
            /\ VerticalBlinker(board)
        /\ gen % 2 = 1 =>
            AliveCells(board) = { Coord(1, 2), Coord(2, 2), Coord(3, 2) }
        /\ Cardinality(AliveCells(board)) = 3

\* The blinker after two generations: the vertical line again, made by an
\* advance_to_next_gen from the horizontal line.
BlinkerPeriodTwoWitness ==
    /\ pattern.kind = "blinker"
    /\ pattern.w = 5 /\ pattern.h = 5
    /\ pattern.at = Coord(2, 1)
    /\ gen = 2
    /\ last.op = "advance_to_next_gen"
    /\ AliveCells(last.before) = { Coord(1, 2), Coord(2, 2), Coord(3, 2) }
    /\ VerticalBlinker(board)

====
